---- MODULE Spec2Model ----
(***************************************************************************)
(* Model of rust-timerfd (src/src/lib.rs): a Linux timerfd wrapped in a    *)
(* Timer state machine and attached to the GLib main loop as a GSource.    *)
(*                                                                         *)
(* Two threads of control are modelled: the host, which owns the           *)
(* TimerGSource (configures, starts, stops, attaches and finally drops     *)
(* it), and the loop thread, which polls the descriptor and runs the       *)
(* dispatch function (callback, then the drain read).  The kernel timer    *)
(* is a third party: time elapses and expirations bump the descriptor's    *)
(* counter.  Time is measured in whole milliseconds; the kernel keeps      *)
(* nanoseconds, as the code's timespec does.                               *)
(***************************************************************************)
EXTENDS Integers, Sequences, FiniteSets, TLC

\* ------------------------------------------------------------------ bounds
\* Largest value the expiration counter is allowed to reach unread.
MaxTicks == 2
\* Largest interval (ms) handed to configure.
MaxInterval == 2

\* Millisecond arguments tried: rejected ones, the smallest legal one and
\* one above a second for `initial_ms`; a negative one, none, ones equal to
\* and larger than the smallest initial, and one above a second for
\* `interval_ms`.
InitialInputs == {-1, 0, 1, 1001}

IntervalInputs == {-1, 0, 1, MaxInterval, 1001}
\* The clock is observed in steps of a second while a second or more
\* remains, and of a millisecond below that.
Quantum(ns) == IF ns >= 1000 * 1000 * 1000 THEN 1000 ELSE 1

\* --------------------------------------------------------------- constants
NSEC_MAX == 999999999

NsPerMs == 1000 * 1000

NsPerSec == 1000 * NsPerMs

\* --------------------------------------------------- timespec / itimerspec
\* Rust's `/` on i64 truncates toward zero, `%` takes the dividend's sign.
TruncDiv(a, b) == IF a >= 0 THEN a \div b ELSE -((-a) \div b)

Rem(a, b) == a - b * TruncDiv(a, b)

timespec(sec, nsec) == [tv_sec |-> sec, tv_nsec |-> nsec]

itimerspec(interval, value) == [it_interval |-> interval, it_value |-> value]

\* #[derive(Default)]: all fields zero.
ZeroTimespec == timespec(0, 0)

ZeroSpec == itimerspec(ZeroTimespec, ZeroTimespec)

\* Variant: the upper limit of tv_nsec is not checked.
is_valid_NoUpperLimit(ts) == 0 <= ts.tv_nsec

is_valid(ts) == 0 <= ts.tv_nsec /\ ts.tv_nsec <= NSEC_MAX

\* Variant: the nanoseconds are compared before the seconds.
cmp_NanosecondsFirst(a, b) ==
    IF ~is_valid(a) \/ ~is_valid(b) THEN "panic"
    ELSE IF a.tv_nsec < b.tv_nsec THEN "Less"
    ELSE IF a.tv_nsec > b.tv_nsec THEN "Greater"
    ELSE IF a.tv_sec < b.tv_sec THEN "Less"
    ELSE IF a.tv_sec > b.tv_sec THEN "Greater"
    ELSE "Equal"

\* Ord::cmp on two timespecs: "panic" if either is out of range, otherwise
\* seconds first, nanoseconds second.
cmp(a, b) ==
    IF ~is_valid(a) \/ ~is_valid(b) THEN "panic"
    ELSE IF a.tv_sec < b.tv_sec THEN "Less"
    ELSE IF a.tv_sec > b.tv_sec THEN "Greater"
    ELSE IF a.tv_nsec < b.tv_nsec THEN "Less"
    ELSE IF a.tv_nsec > b.tv_nsec THEN "Greater"
    ELSE "Equal"

\* The comparison of two integers (Ord for the field types).
int_cmp(x, y) == IF x < y THEN "Less" ELSE IF x > y THEN "Greater" ELSE "Equal"

\* PartialOrd::partial_cmp on two timespecs; Some(ordering) is written as
\* the ordering.  The operators <, <=, >, >= are derived from it.
partial_cmp(a, b) ==
    IF ~is_valid(a) \/ ~is_valid(b) THEN "panic"
    ELSE LET c == int_cmp(a.tv_sec, b.tv_sec)
         IN  IF c = "Equal" THEN int_cmp(a.tv_nsec, b.tv_nsec) ELSE c

\* The derived PartialEq (operator ==): field by field, no range check.
eq(a, b) ==
    IF a.tv_sec = b.tv_sec /\ a.tv_nsec = b.tv_nsec THEN "true" ELSE "false"

\* Variant: the remainder is scaled to microseconds.
MsToTimespec_Micro(ms) == timespec(TruncDiv(ms, 1000), Rem(ms, 1000) * 1000)

\* The millisecond split done by set_interval for each of its arguments.
MsToTimespec(ms) == timespec(TruncDiv(ms, 1000), Rem(ms, 1000) * 1000 * 1000)

\* ------------------------------------------------------ kernel timer (fd)
\* The kernel object behind the descriptor: time remaining until the next
\* expiration, the reload interval and the unread expiration counter.
KernelValid(ts) == ts.tv_sec >= 0 /\ 0 <= ts.tv_nsec /\ ts.tv_nsec <= NSEC_MAX

ToNs(ts) == ts.tv_sec * NsPerSec + ts.tv_nsec

FromNs(ns) == timespec(ns \div NsPerSec, ns % NsPerSec)

KernelDisarmed(k) == k.it_value = ZeroTimespec

\* What timerfd_gettime / the old_value of timerfd_settime report.
KernelSpec(k) == itimerspec(k.it_interval, k.it_value)

\* timerfd_settime(fd, 0, new_value, &old): EBADF on a descriptor that is
\* not open, EINVAL on an out-of-range spec; otherwise the spec is
\* installed, the expiration counter is reset and the previous setting is
\* returned.
timerfd_settime(f, k, new_value) ==
    IF f # "open"
      THEN [ret |-> -1, errno |-> "EBADF", kernel |-> k, old |-> ZeroSpec]
    ELSE IF ~KernelValid(new_value.it_value) \/ ~KernelValid(new_value.it_interval)
      THEN [ret |-> -1, errno |-> "EINVAL", kernel |-> k, old |-> ZeroSpec]
    ELSE [ret |-> 0, errno |-> "none",
          kernel |-> [it_value |-> new_value.it_value,
                      it_interval |-> IF new_value.it_value = ZeroTimespec
                                        THEN ZeroTimespec
                                        ELSE new_value.it_interval,
                      ticks |-> 0],
          old |-> KernelSpec(k)]

\* Variant: the descriptor is created without TFD_NONBLOCK.
timerfd_flags_Blocking == {"TFD_CLOEXEC"}

\* The flags TimerFD::new passes to timerfd_create.
timerfd_flags == {"TFD_CLOEXEC", "TFD_NONBLOCK"}

\* read(fd, buf, 8) on the timer descriptor: 8 bytes and the counter reset
\* when it is non-zero; otherwise -1 with EAGAIN on a non-blocking
\* descriptor, while on a blocking one the caller waits (`blocks`).
timerfd_read(k) ==
    IF k.ticks > 0
      THEN [n |-> 8, errno |-> "none", kernel |-> [k EXCEPT !.ticks = 0],
            blocks |-> FALSE]
    ELSE IF "TFD_NONBLOCK" \in timerfd_flags
      THEN [n |-> -1, errno |-> "EAGAIN", kernel |-> k, blocks |-> FALSE]
    ELSE [n |-> 0, errno |-> "none", kernel |-> k, blocks |-> TRUE]

\* The state of the clock after d ms: the remaining time shrinks; reaching
\* zero is an expiration, which bumps the counter and reloads the interval
\* (a zero interval leaves the timer disarmed).
KernelElapse(k, d) ==
    LET left == ToNs(k.it_value) - d * NsPerMs
    IN  IF left > 0
          THEN [k EXCEPT !.it_value = FromNs(left)]
          ELSE [k EXCEPT !.it_value = k.it_interval, !.ticks = k.ticks + 1]

\* ------------------------------------------------------------------ TimerFD
\* TimerFD::settime: panics (ArmFailed) when the syscall fails.
settime(f, k, new_value) ==
    LET r == timerfd_settime(f, k, new_value)
    IN  [ok |-> r.ret = 0, kernel |-> r.kernel, old |-> r.old]

\* -------------------------------------------------------------------- Timer
\* Each operation maps (timer, descriptor, kernel) to the new timer and
\* kernel state and the outcome: "ok" or the kind of panic raised.
\* Variant: the check of `active` is missing.
set_interval_NoActiveCheck(t, initial_ms, interval_ms) ==
    IF ~(initial_ms > 0)
      THEN [timer |-> t, res |-> "InvalidArgument"]
    ELSE [timer |-> [t EXCEPT !.current =
                        itimerspec(MsToTimespec(interval_ms),
                                   MsToTimespec(initial_ms))],
          res |-> "ok"]

\* Variant: the assertion on `initial_ms` is missing.
set_interval_NoArgCheck(t, initial_ms, interval_ms) ==
    IF t.active
      THEN [timer |-> t, res |-> "ReconfigureWhileArmed"]
    ELSE [timer |-> [t EXCEPT !.current =
                        itimerspec(MsToTimespec(interval_ms),
                                   MsToTimespec(initial_ms))],
          res |-> "ok"]

set_interval(t, initial_ms, interval_ms) ==
    IF ~(initial_ms > 0)
      THEN [timer |-> t, res |-> "InvalidArgument"]
    ELSE IF t.active
      THEN [timer |-> t, res |-> "ReconfigureWhileArmed"]
    ELSE [timer |-> [t EXCEPT !.current =
                        itimerspec(MsToTimespec(interval_ms),
                                   MsToTimespec(initial_ms))],
          res |-> "ok"]

set_oneshot(t, timeout_ms) == set_interval(t, timeout_ms, 0)

\* Variant: `active` is not set after arming.
start_NoFlag(t, f, k) ==
    IF t.active
      THEN [timer |-> t, kernel |-> k, res |-> "AlreadyArmed"]
    ELSE LET s == settime(f, k, t.current)
         IN  IF ~s.ok
               THEN [timer |-> t, kernel |-> k, res |-> "ArmFailed"]
               ELSE [timer |-> t, kernel |-> s.kernel, res |-> "ok"]

\* Variant: the default (all-zero) spec is installed instead of `current`.
start_InstallsDefault(t, f, k) ==
    IF t.active
      THEN [timer |-> t, kernel |-> k, res |-> "AlreadyArmed"]
    ELSE LET s == settime(f, k, ZeroSpec)
         IN  IF ~s.ok
               THEN [timer |-> t, kernel |-> k, res |-> "ArmFailed"]
               ELSE [timer |-> [t EXCEPT !.active = TRUE],
                     kernel |-> s.kernel, res |-> "ok"]

\* Variant: `active` is set before the descriptor is armed.
start_FlagFirst(t, f, k) ==
    IF t.active
      THEN [timer |-> t, kernel |-> k, res |-> "AlreadyArmed"]
    ELSE LET s == settime(f, k, t.current)
         IN  IF ~s.ok
               THEN [timer |-> [t EXCEPT !.active = TRUE], kernel |-> k,
                     res |-> "ArmFailed"]
               ELSE [timer |-> [t EXCEPT !.active = TRUE],
                     kernel |-> s.kernel, res |-> "ok"]

start(t, f, k) ==
    IF t.active
      THEN [timer |-> t, kernel |-> k, res |-> "AlreadyArmed"]
    ELSE LET s == settime(f, k, t.current)
         IN  IF ~s.ok
               THEN [timer |-> t, kernel |-> k, res |-> "ArmFailed"]
               ELSE [timer |-> [t EXCEPT !.active = TRUE],
                     kernel |-> s.kernel, res |-> "ok"]

\* Variant: the flag is cleared but the kernel timer is left as it is.
stop_NoDisarm(t, f, k) ==
    IF ~t.active
      THEN [timer |-> t, kernel |-> k, res |-> "NotArmed"]
    ELSE [timer |-> [t EXCEPT !.current = KernelSpec(k), !.active = FALSE],
          kernel |-> k, res |-> "ok"]

\* Variant: the previous spec returned by settime is thrown away.
stop_DropsPrevious(t, f, k) ==
    IF ~t.active
      THEN [timer |-> t, kernel |-> k, res |-> "NotArmed"]
    ELSE LET s == settime(f, k, ZeroSpec)
         IN  IF ~s.ok
               THEN [timer |-> t, kernel |-> k, res |-> "ArmFailed"]
               ELSE [timer |-> [t EXCEPT !.active = FALSE],
                     kernel |-> s.kernel, res |-> "ok"]

stop(t, f, k) ==
    IF ~t.active
      THEN [timer |-> t, kernel |-> k, res |-> "NotArmed"]
    ELSE LET s == settime(f, k, ZeroSpec)
         IN  IF ~s.ok
               THEN [timer |-> t, kernel |-> k, res |-> "ArmFailed"]
               ELSE [timer |-> [t EXCEPT !.current = s.old, !.active = FALSE],
                     kernel |-> s.kernel, res |-> "ok"]

\* ------------------------------------------------------------------- state
VARIABLES
    timer,          \* Timer: [active, current]
    kernel,         \* the kernel timer: [it_value, it_interval, ticks]
    fd,             \* the descriptor number: "none", "open", "closed", "reused"
    closes,         \* how many times libc::close ran on the descriptor
    source,         \* the GSource: "new", "attached", "destroyed"
    ownerRef,       \* TimerGSource still holds its reference on the GSource
    inner,          \* Box<TimerGSourceInner>: "none", "live", "freed"
    hostPc,         \* host: "failed", "alive", "drop1", "drop2", "dropped"
    pc,             \* loop thread: "idle", "step1", "step2", "crashed", "blocked"
    cycle,          \* history: what the current dispatch cycle has done so far
    cont,           \* what the callback returned in the current cycle
    errno,          \* the loop thread's errno
    lastOp,         \* history: the Timer operation this state results from
    lastDrain,      \* history: the drain read this state results from
    configured,     \* history: the spec stored by the last successful configure
    captured,       \* history: a stop has replaced that spec in `current`
    unserved,       \* history: an expiration no callback invocation has followed
    returnedFalse,  \* history: some callback invocation returned false
    operands,       \* three timespecs a caller of the value operations holds
    answer,         \* what the last value operation on them gave
    gsources,       \* the GSource at each address: its state and callback data
    boxes,          \* the TimerGSourceInner at each heap address
    asserted        \* the operands of the dispatch wrapper's last assertion

vars == <<timer, kernel, fd, closes, source, ownerRef, inner, hostPc, pc, cycle, cont,
          errno, lastOp, lastDrain, configured, captured, unserved, returnedFalse,
          operands, answer, gsources, boxes, asserted>>

\* The variables of one TimerGSource, its Timer and its loop thread.
timerVars == <<timer, kernel, fd, closes, source, ownerRef, inner, hostPc, pc, cycle,
               cont, errno, lastOp, lastDrain, configured, captured, unserved,
               returnedFalse>>

\* The variables of the value operations; the timer's steps leave them.
valueVars == <<operands, answer>>

\* The variables of the process-wide view: every GSource and every
\* TimerGSourceInner there is.
registryVars == <<gsources, boxes, asserted>>

\* lastOp and lastDrain describe the step that produced the state; a step
\* that is no Timer operation (no drain read) leaves these values.
NoOp ==
    [op |-> "none", by |-> "none", wasActive |-> FALSE, arg |-> 0,
     arg2 |-> 0, res |-> "ok", prev |-> ZeroSpec, cur |-> ZeroSpec]

NoDrain ==
    [done |-> FALSE, n |-> 0, cause |-> "none", accepted |-> FALSE,
     cont |-> FALSE, keep |-> FALSE, blocked |-> FALSE]

OpNote(op, by, t, k, arg, arg2, res) ==
    [op |-> op, by |-> by, wasActive |-> t.active, arg |-> arg, arg2 |-> arg2,
     res |-> res, prev |-> KernelSpec(k), cur |-> t.current]

\* No value operation has been made.
NoAnswer ==
    [op |-> "none", ab |-> "none", ba |-> "none", bc |-> "none", ac |-> "none",
     partial_ab |-> "none", eq_ab |-> "none", res |-> "ok", errno |-> "none",
     spec |-> ZeroSpec, prev |-> ZeroSpec]

\* Bound: how many GSource structures and heap allocations the process has
\* room for (addresses 1..MaxSources; NULL is no address).
MaxSources == 3

NULL == 0

Pointers == 1 .. MaxSources

Addresses == 1 .. MaxSources

\* The one static dispatch table every source is created with.
TIMER_GSOURCE_FUNCS == [dispatch |-> "dispatch_timerfd_g_source"]

NoGSource == [state |-> "free", funcs |-> TIMER_GSOURCE_FUNCS, user_data |-> NULL]

NoBox == [live |-> FALSE, g_source |-> NULL]

NoAssert == [src |-> NULL, user_data |-> NULL, g_source |-> NULL, live |-> FALSE]

\* No TimerGSource has been created.
RegistryEmpty ==
    /\ gsources = [p \in Pointers |-> NoGSource]
    /\ boxes = [b \in Addresses |-> NoBox]
    /\ asserted = NoAssert

\* Timer::new inside TimerGSource::new: either timerfd_create succeeded and
\* the source exists, idle and detached, or it returned -1 and construction
\* panicked (ResourceCreationFailed) with no descriptor and no allocation.
TimerInit ==
    /\ timer = [active |-> FALSE, current |-> ZeroSpec]
    /\ kernel = [it_value |-> ZeroTimespec, it_interval |-> ZeroTimespec, ticks |-> 0]
    /\ \E created \in BOOLEAN :
          /\ fd = IF created THEN "open" ELSE "none"
          /\ inner = IF created THEN "live" ELSE "none"
          /\ hostPc = IF created THEN "alive" ELSE "failed"
          /\ ownerRef = created
    /\ closes = 0
    /\ source = "new"
    /\ pc = "idle"
    /\ cycle = <<>>
    /\ cont = TRUE
    /\ errno = "none"
    /\ lastOp = NoOp
    /\ lastDrain = NoDrain
    /\ configured = ZeroSpec
    /\ captured = FALSE
    /\ unserved = FALSE
    /\ returnedFalse = FALSE

Init ==
    /\ TimerInit
    /\ operands = <<ZeroTimespec, ZeroTimespec, ZeroTimespec>>
    /\ answer = NoAnswer
    /\ RegistryEmpty

\* A successful timerfd_settime resets the expiration counter, so whatever
\* expiration was pending is cancelled by the caller, not lost.
UnservedAfter(res) == IF res = "ok" THEN FALSE ELSE unserved

\* ------------------------------------------------------------ host actions
\* The host reaches the Timer through TimerGSource::mut_timer, between
\* dispatch cycles (no two contexts operate on one Timer at a time).
HostMayCall == hostPc = "alive" /\ pc = "idle"

HostSetInterval ==
    /\ HostMayCall
    /\ \E initial_ms \in InitialInputs, interval_ms \in IntervalInputs :
         LET r == set_interval(timer, initial_ms, interval_ms)
         IN  /\ timer' = r.timer
             /\ configured' = IF r.res = "ok" THEN r.timer.current ELSE configured
             /\ captured' = IF r.res = "ok" THEN FALSE ELSE captured
             /\ lastOp' = OpNote("set_interval", "host", timer, kernel,
                                 initial_ms, interval_ms, r.res)
    /\ lastDrain' = NoDrain
    /\ UNCHANGED <<kernel, fd, closes, source, ownerRef, inner, hostPc, pc, cycle, cont,
                   errno, unserved, returnedFalse>>
    /\ UNCHANGED <<valueVars, registryVars>>

HostSetOneshot ==
    /\ HostMayCall
    /\ \E timeout_ms \in InitialInputs :
         LET r == set_oneshot(timer, timeout_ms)
         IN  /\ timer' = r.timer
             /\ configured' = IF r.res = "ok" THEN r.timer.current ELSE configured
             /\ captured' = IF r.res = "ok" THEN FALSE ELSE captured
             /\ lastOp' = OpNote("set_oneshot", "host", timer, kernel,
                                 timeout_ms, 0, r.res)
    /\ lastDrain' = NoDrain
    /\ UNCHANGED <<kernel, fd, closes, source, ownerRef, inner, hostPc, pc, cycle, cont,
                   errno, unserved, returnedFalse>>
    /\ UNCHANGED <<valueVars, registryVars>>

HostStart ==
    /\ HostMayCall
    /\ LET r == start(timer, fd, kernel)
       IN  /\ timer' = r.timer
           /\ kernel' = r.kernel
           /\ lastOp' = OpNote("start", "host", timer, kernel, 0, 0, r.res)
           /\ unserved' = UnservedAfter(r.res)
    /\ lastDrain' = NoDrain
    /\ UNCHANGED <<fd, closes, source, ownerRef, inner, hostPc, pc, cycle, cont, errno,
                   configured, captured, returnedFalse>>
    /\ UNCHANGED <<valueVars, registryVars>>

HostStop ==
    /\ HostMayCall
    /\ LET r == stop(timer, fd, kernel)
       IN  /\ timer' = r.timer
           /\ kernel' = r.kernel
           /\ lastOp' = OpNote("stop", "host", timer, kernel, 0, 0, r.res)
           /\ captured' = IF r.res = "ok" THEN TRUE ELSE captured
           /\ unserved' = UnservedAfter(r.res)
    /\ lastDrain' = NoDrain
    /\ UNCHANGED <<fd, closes, source, ownerRef, inner, hostPc, pc, cycle, cont, errno,
                   configured, returnedFalse>>
    /\ UNCHANGED <<valueVars, registryVars>>

\* TimerGSource::attach: g_source_add_unix_fd, then g_source_attach.
HostAttach ==
    /\ hostPc = "alive"
    /\ source = "new"
    /\ source' = "attached"
    /\ lastOp' = NoOp
    /\ lastDrain' = NoDrain
    /\ UNCHANGED <<timer, kernel, fd, closes, ownerRef, inner, hostPc, pc, cycle, cont,
                   errno, configured, captured, unserved, returnedFalse>>
    /\ UNCHANGED <<valueVars, registryVars>>

\* Dropping the TimerGSource: the body of Drop::drop (g_source_destroy,
\* g_source_unref), then the drop of its field `inner`, which drops the
\* callback object and the Timer, whose TimerFD closes the descriptor, and
\* frees the allocation.  The loop thread may run between the steps.
DropSequence == <<"g_source_destroy", "g_source_unref", "drop_inner">>

DropIndex == [alive |-> 1, drop1 |-> 2, drop2 |-> 3]

DropNext == [alive |-> "drop1", drop1 |-> "drop2", drop2 |-> "dropped"]

\* Variant: the descriptor is never closed.
TimerFD_drop_NoClose(f, c) == [fd |-> f, closes |-> c]

\* Drop for TimerFD: close(fd), once per call.
TimerFD_drop(f, c) ==
    [fd |-> IF f = "open" THEN "closed" ELSE f, closes |-> c + 1]

DropStep ==
    /\ hostPc \in {"alive", "drop1", "drop2"}
    /\ LET step == DropSequence[DropIndex[hostPc]]
       IN  /\ source' = IF step = "g_source_destroy" THEN "destroyed" ELSE source
           /\ ownerRef' = IF step = "g_source_unref" THEN FALSE ELSE ownerRef
           /\ inner' = IF step = "drop_inner" THEN "freed" ELSE inner
           /\ fd' = IF step = "drop_inner"
                      THEN TimerFD_drop(fd, closes).fd ELSE fd
           /\ closes' = IF step = "drop_inner"
                          THEN TimerFD_drop(fd, closes).closes ELSE closes
    /\ hostPc' = DropNext[hostPc]
    /\ lastOp' = NoOp
    /\ lastDrain' = NoDrain
    /\ UNCHANGED <<timer, kernel, pc, cycle, cont, errno, configured, captured, unserved,
                   returnedFalse>>
    /\ UNCHANGED <<valueVars, registryVars>>

\* ---------------------------------------------------------------- the world
\* Time passes on the armed timer.
Elapse ==
    /\ fd = "open"
    /\ ~KernelDisarmed(kernel)
    /\ LET k == KernelElapse(kernel, Quantum(ToNs(kernel.it_value)))
       IN  /\ k.ticks <= MaxTicks
           /\ kernel' = k
           /\ unserved' = IF k.ticks > kernel.ticks THEN TRUE ELSE unserved
    /\ lastOp' = NoOp
    /\ lastDrain' = NoDrain
    /\ UNCHANGED <<timer, fd, closes, source, ownerRef, inner, hostPc, pc, cycle, cont,
                   errno, configured, captured, returnedFalse>>
    /\ UNCHANGED <<valueVars, registryVars>>

\* Once closed, the descriptor number is free: some other open() in the
\* process may be given the same number.
ReuseFd ==
    /\ fd = "closed"
    /\ fd' = "reused"
    /\ lastOp' = NoOp
    /\ lastDrain' = NoDrain
    /\ UNCHANGED <<timer, kernel, closes, source, ownerRef, inner, hostPc, pc,
                   cycle, cont, errno, configured, captured, unserved, returnedFalse>>
    /\ UNCHANGED <<valueVars, registryVars>>

\* ---------------------------------------------------------- the loop thread
\* What read(fd, buf, 8) can return: the timer's answer on the open timer
\* descriptor; EBADF on a closed number; on a number since reused for
\* another file, whatever that file gives (8 bytes, a short count, or
\* nothing yet).  errno "none" means the call did not set errno.
ReadOutcomes(f, k) ==
    IF f = "open" THEN {timerfd_read(k)}
    ELSE IF f = "reused"
      THEN {[n |-> x, errno |-> "none", kernel |-> k, blocks |-> FALSE] :
               x \in {0, 3, 8}}
           \cup {[n |-> -1, errno |-> "EAGAIN", kernel |-> k, blocks |-> FALSE]}
    ELSE {[n |-> -1, errno |-> "EBADF", kernel |-> k, blocks |-> FALSE]}

\* io::Error::last_os_error() after a read: errno is written only by a
\* failing call, otherwise it keeps what an earlier call left there.
last_os_error(r, e) == IF r.n = -1 THEN r.errno ELSE e

\* The callback object is the host's code.  It is handed &mut Timer and may
\* leave it alone, read the descriptor itself, stop the timer, or stop,
\* reconfigure and restart it.  A panic of a Timer operation ends it.
CallbackKinds == {"none", "read", "stop", "rearm"}

CallbackInitial == {1}

CallbackInterval == {0, MaxInterval}

Untouched(t, k) ==
    [timer |-> t, kernel |-> k, res |-> "ok", errno |-> "none",
     note |-> NoOp, configured |-> configured, captured |-> captured]

callback(kind, i, p, t, f, k) ==
    IF kind = "read"
      THEN LET r == timerfd_read(k)
           IN  [Untouched(t, k) EXCEPT
                  !.kernel = r.kernel, !.errno = r.errno,
                  !.res = IF r.blocks THEN "blocked" ELSE "ok"]
    ELSE IF kind = "stop"
      THEN LET s == stop(t, f, k)
           IN  [Untouched(t, k) EXCEPT
                  !.timer = s.timer, !.kernel = s.kernel, !.res = s.res,
                  !.captured = IF s.res = "ok" THEN TRUE ELSE captured,
                  !.note = OpNote("stop", "callback", t, k, 0, 0, s.res)]
    ELSE IF kind = "rearm"
      THEN LET s == stop(t, f, k)
               c == set_interval(s.timer, i, p)
               a == start(c.timer, f, s.kernel)
           IN  IF s.res # "ok"
                 THEN [Untouched(t, k) EXCEPT
                         !.res = s.res,
                         !.note = OpNote("stop", "callback", t, k, 0, 0, s.res)]
               ELSE IF c.res # "ok"
                 THEN [Untouched(t, k) EXCEPT
                         !.timer = s.timer, !.kernel = s.kernel, !.res = c.res,
                         !.captured = TRUE,
                         !.note = OpNote("set_interval", "callback", s.timer,
                                         s.kernel, i, p, c.res)]
               ELSE [Untouched(t, k) EXCEPT
                       !.timer = a.timer, !.kernel = a.kernel, !.res = a.res,
                       !.configured = c.timer.current, !.captured = FALSE,
                       !.note = OpNote("start", "callback", c.timer, s.kernel,
                                       0, 0, a.res)]
    ELSE Untouched(t, k)

\* `if n != 8 { assert_eq!(last_os_error, EAGAIN) }`: the read is accepted
\* when it returned 8 bytes or errno reads EAGAIN.
drain_accepts(n, e) == n = 8 \/ e = "EAGAIN"

\* Variant: the source is kept whatever the callback returned.
dispatch_result_AlwaysKeep(c) == TRUE

\* `if cont { 1 } else { 0 }`: TRUE keeps the source, FALSE removes it.
dispatch_result(c) == c

\* Variant: the descriptor is drained before the callback runs.
DispatchOrder_ReadFirst == <<"read", "callback">>

\* The dispatch function's two steps, in program order.
DispatchOrder == <<"callback", "read">>

StepIndex == [step1 |-> 1, step2 |-> 2]

AtStep(what) ==
    /\ pc \in {"step1", "step2"}
    /\ DispatchOrder[StepIndex[pc]] = what

\* Where the loop thread goes after a step: a panic ends it, the first
\* step leads to the second, the second returns to the reactor.
AfterStep(ok) ==
    IF ~ok THEN "crashed" ELSE IF pc = "step2" THEN "idle" ELSE "step2"

\* A read that waits on the descriptor keeps the loop thread inside it.
AfterRead(blocks, ok) == IF blocks THEN "blocked" ELSE AfterStep(ok)

\* The reactor destroys the source whose dispatch returned FALSE.
AfterReturn(ok, keep) ==
    IF pc = "step2" /\ ok /\ ~keep /\ source = "attached"
      THEN "destroyed" ELSE source

\* g_main_context_iteration: the attached source's descriptor polls
\* readable, so the reactor calls dispatch_timerfd_g_source, which recovers
\* the context and calls dispatch_timerfd_g_source_for_realz.
DispatchBegin ==
    /\ pc = "idle"
    /\ source = "attached"
    /\ fd = "open"
    /\ kernel.ticks > 0
    /\ pc' = "step1"
    /\ cycle' = <<>>
    /\ lastOp' = NoOp
    /\ lastDrain' = NoDrain
    /\ UNCHANGED <<timer, kernel, fd, closes, source, ownerRef, inner, hostPc,
                   cont, errno, configured, captured, unserved, returnedFalse>>
    /\ UNCHANGED <<valueVars, registryVars>>

\* `let cont = tgs.callback_object.callback(&mut tgs.timer)`.  On a freed
\* context the call goes through dangling memory: it may crash, or run
\* something that returns either answer.
CallbackStep ==
    /\ AtStep("callback")
    /\ \E ret \in BOOLEAN :
         /\ cont' = ret
         /\ returnedFalse' = (returnedFalse \/ ~ret)
         /\ IF inner = "live"
              THEN \E kind \in CallbackKinds, i \in CallbackInitial,
                      p \in CallbackInterval :
                     LET r == callback(kind, i, p, timer, fd, kernel)
                     IN  /\ timer' = r.timer
                         /\ kernel' = r.kernel
                         /\ errno' = IF r.errno = "none" THEN errno ELSE r.errno
                         /\ lastOp' = r.note
                         /\ configured' = r.configured
                         /\ captured' = r.captured
                         /\ unserved' = FALSE
                         /\ pc' = AfterRead(r.res = "blocked", r.res = "ok")
                         /\ source' = AfterReturn(r.res = "ok",
                                                  dispatch_result(ret))
              ELSE /\ \E crash \in BOOLEAN :
                        /\ pc' = AfterStep(~crash)
                        /\ source' = AfterReturn(~crash, dispatch_result(ret))
                   /\ lastOp' = NoOp
                   /\ UNCHANGED <<timer, kernel, errno, configured, captured, unserved>>
    /\ cycle' = Append(cycle, "callback")
    /\ lastDrain' = NoDrain
    /\ UNCHANGED <<fd, closes, ownerRef, inner, hostPc>>
    /\ UNCHANGED <<valueVars, registryVars>>

\* The drain read, the check of its result and, at the end of the function,
\* the return of `cont` to the reactor.  A failed assertion is a panic
\* inside the extern "C" function: the loop thread does not return from it.
DrainStep ==
    /\ AtStep("read")
    /\ \E r \in ReadOutcomes(fd, kernel) :
         LET e == last_os_error(r, errno)
             ok == drain_accepts(r.n, e)
             keep == dispatch_result(cont)
         IN  /\ kernel' = r.kernel
             /\ errno' = e
             /\ lastDrain' = [done |-> TRUE, n |-> r.n,
                              cause |-> IF r.n = -1 THEN r.errno ELSE "none",
                              accepted |-> ok /\ ~r.blocks, cont |-> cont,
                              keep |-> keep, blocked |-> r.blocks]
             /\ pc' = AfterRead(r.blocks, ok)
             /\ source' = AfterReturn(ok /\ ~r.blocks, keep)
    /\ cycle' = Append(cycle, "read")
    /\ cont' = IF pc = "step2" THEN TRUE ELSE cont
    /\ lastOp' = NoOp
    /\ UNCHANGED <<timer, fd, closes, ownerRef, inner, hostPc, configured, captured,
                   unserved, returnedFalse>>
    /\ UNCHANGED <<valueVars, registryVars>>

\* ----------------------------------------------------------- specification
Next ==
    \/ HostSetInterval
    \/ HostSetOneshot
    \/ HostStart
    \/ HostStop
    \/ HostAttach
    \/ DropStep
    \/ Elapse
    \/ ReuseFd
    \/ DispatchBegin
    \/ CallbackStep
    \/ DrainStep

Spec == Init /\ [][Next]_vars

\* ------------------------------------------------------ value operations
\* timespec and itimerspec have public fields, and their comparisons and
\* TimerFD::settime are public: a caller can apply them to any values.
\* The caller holds three timespecs a, b, c and a TimerFD.
Seconds == {0, 1}

Nanoseconds == {-1, 0, 1, NSEC_MAX, NSEC_MAX + 1}

TimeValues == {timespec(s, n) : s \in Seconds, n \in Nanoseconds}

ValueInit ==
    /\ TimerInit
    /\ fd = "open"
    /\ operands \in TimeValues \X TimeValues \X TimeValues
    /\ answer = NoAnswer
    /\ RegistryEmpty

\* a.cmp(&b) and the other comparisons of the three values.
Compare ==
    /\ LET a == operands[1]
           b == operands[2]
           c == operands[3]
       IN  answer' = [NoAnswer EXCEPT
                        !.op = "compare",
                        !.ab = cmp(a, b), !.ba = cmp(b, a),
                        !.bc = cmp(b, c), !.ac = cmp(a, c),
                        !.partial_ab = partial_cmp(a, b),
                        !.eq_ab = eq(a, b),
                        !.res = IF cmp(a, b) = "panic"
                                  THEN "InvalidTimeValue" ELSE "ok"]
    /\ UNCHANGED <<timer, kernel, fd, closes, source, ownerRef, inner, hostPc,
                   pc, cycle, cont, errno, lastOp, lastDrain, configured,
                   captured, unserved, returnedFalse, operands>>
    /\ UNCHANGED registryVars

\* TimerFD::settime on a spec made of two of the values.
ArmValue ==
    /\ \E i \in 1..3, j \in 1..3 :
         LET new_value == itimerspec(operands[i], operands[j])
             s == settime(fd, kernel, new_value)
         IN  /\ kernel' = s.kernel
             /\ answer' = [NoAnswer EXCEPT
                             !.op = "arm",
                             !.res = IF s.ok THEN "ok" ELSE "ArmFailed",
                             !.errno = timerfd_settime(fd, kernel, new_value).errno,
                             !.spec = new_value,
                             !.prev = KernelSpec(kernel)]
    /\ UNCHANGED <<timer, fd, closes, source, ownerRef, inner, hostPc, pc,
                   cycle, cont, errno, lastOp, lastDrain, configured, captured,
                   unserved, returnedFalse, operands>>
    /\ UNCHANGED registryVars

ValueNext ==
    \/ Compare
    \/ ArmValue

ValueSpec == ValueInit /\ [][ValueNext]_vars

\* ------------------------------------------------- several TimerGSources
\* The process creates, attaches and drops any number of TimerGSources;
\* the reactor dispatches whichever attached source is ready.  Every
\* GSource is created with the same dispatch table, so one function,
\* dispatch_timerfd_g_source, serves them all and tells them apart by the
\* user_data the reactor hands back.
RegistryInit ==
    /\ Init
    /\ hostPc = "alive"

\* Variant: the address of one fixed allocation is registered for all.
callback_data_Shared(b) == 1

\* `(&mut *tgsi as *mut TimerGSourceInner) as gpointer`: the address of the
\* Box's allocation, registered by g_source_set_callback.
callback_data(b) == b

\* TimerGSource::new: g_source_new returns memory that is not in use, as
\* does Box::new; the Box records the GSource and the GSource the Box.
TimerGSource_new ==
    /\ \E p \in Pointers, b \in Addresses :
         /\ gsources[p].state = "free"
         /\ ~boxes[b].live
         /\ boxes' = [boxes EXCEPT ![b] = [live |-> TRUE, g_source |-> p]]
         /\ gsources' = [gsources EXCEPT ![p] =
                            [state |-> "new", funcs |-> TIMER_GSOURCE_FUNCS,
                             user_data |-> callback_data(b)]]
    /\ UNCHANGED <<timerVars, valueVars, asserted>>

\* TimerGSource::attach on the TimerGSource whose inner is at b.
TimerGSource_attach ==
    /\ \E b \in Addresses :
         /\ boxes[b].live
         /\ gsources[boxes[b].g_source].state = "new"
         /\ gsources' = [gsources EXCEPT ![boxes[b].g_source].state = "attached"]
    /\ UNCHANGED <<timerVars, valueVars, boxes, asserted>>

\* Drop of the TimerGSource whose inner is at b, between dispatches:
\* g_source_destroy and g_source_unref release the GSource, then the Box
\* is freed; the freed memory keeps what was written in it.
TimerGSource_drop ==
    /\ \E b \in Addresses :
         /\ boxes[b].live
         /\ gsources' = [gsources EXCEPT ![boxes[b].g_source] = NoGSource]
         /\ boxes' = [boxes EXCEPT ![b].live = FALSE]
    /\ UNCHANGED <<timerVars, valueVars, asserted>>

\* The reactor finds an attached source ready and calls the dispatch
\* function of its table with the source and the registered callback data:
\* dispatch_timerfd_g_source reads `tgs.g_source` through user_data for its
\* assert_eq!.  A callback that returns FALSE has the source destroyed.
ReactorDispatch ==
    /\ \E p \in Pointers, keep \in BOOLEAN :
         /\ gsources[p].state = "attached"
         /\ gsources[p].funcs.dispatch = "dispatch_timerfd_g_source"
         /\ LET user_data == gsources[p].user_data
                tgs == boxes[user_data]
            IN  asserted' = [src |-> p, user_data |-> user_data,
                             g_source |-> tgs.g_source, live |-> tgs.live]
         /\ gsources' = [gsources EXCEPT ![p].state =
                            IF dispatch_result(keep) THEN "attached" ELSE "destroyed"]
    /\ UNCHANGED <<timerVars, valueVars, boxes>>

RegistryNext ==
    \/ TimerGSource_new
    \/ TimerGSource_attach
    \/ TimerGSource_drop
    \/ ReactorDispatch

RegistrySpec == RegistryInit /\ [][RegistryNext]_vars

\* ================================================================== claims
Misuse == {"AlreadyArmed", "NotArmed", "ReconfigureWhileArmed"}

IsConfigure(op) == op \in {"set_interval", "set_oneshot"}

\* The timer object and its descriptor exist.
Live == inner = "live" /\ fd = "open"

\* C1 (as stated): `active` is true exactly when the spec installed in the
\* kernel timer is non-disarmed (its it_value is not all-zero).
C1_ActiveIffKernelArmed ==
    Live => (timer.active <=> ~KernelDisarmed(kernel))

\* C1 (amended): whenever the spec installed in the kernel timer is
\* non-disarmed, `active` is true; an idle Timer's kernel timer is disarmed.
\* The converse fails: `active` stays true after a one-shot timer expired.
C1_KernelArmedImpliesActive ==
    Live => (~KernelDisarmed(kernel) => timer.active)

\* A periodic timer that has expired and is running towards its next
\* expiration.
C1_Witness ==
    /\ Live
    /\ timer.active
    /\ ~KernelDisarmed(kernel)
    /\ kernel.ticks > 0

\* C2 (as stated): start() in Armed fails with AlreadyArmed, configure in
\* Armed fails with ReconfigureWhileArmed whatever its arguments, stop() in
\* Idle fails with NotArmed; start() in Idle and stop() in Armed are not
\* rejected as misuse.
C2_MisuseRejected ==
    /\ (lastOp.op = "start" /\ lastOp.wasActive) => lastOp.res = "AlreadyArmed"
    /\ (IsConfigure(lastOp.op) /\ lastOp.wasActive)
         => lastOp.res = "ReconfigureWhileArmed"
    /\ (lastOp.op = "stop" /\ ~lastOp.wasActive) => lastOp.res = "NotArmed"
    /\ (lastOp.op = "start" /\ ~lastOp.wasActive) => lastOp.res \notin Misuse
    /\ (lastOp.op = "stop" /\ lastOp.wasActive) => lastOp.res \notin Misuse

\* C2 (amended): as stated, except that configure in Armed fails with
\* ReconfigureWhileArmed only when initial_ms > 0; with initial_ms <= 0 it
\* fails on the argument check, which comes first.  Either way it fails.
C2_MisuseRejectedArgsFirst ==
    /\ (lastOp.op = "start" /\ lastOp.wasActive) => lastOp.res = "AlreadyArmed"
    /\ (IsConfigure(lastOp.op) /\ lastOp.wasActive)
         => lastOp.res = IF lastOp.arg > 0 THEN "ReconfigureWhileArmed"
                                           ELSE "InvalidArgument"
    /\ (lastOp.op = "stop" /\ ~lastOp.wasActive) => lastOp.res = "NotArmed"
    /\ (lastOp.op = "start" /\ ~lastOp.wasActive) => lastOp.res \notin Misuse
    /\ (lastOp.op = "stop" /\ lastOp.wasActive) => lastOp.res \notin Misuse

\* configure with a legal initial_ms was called on an armed Timer.
C2_Witness ==
    /\ IsConfigure(lastOp.op)
    /\ lastOp.wasActive
    /\ lastOp.arg > 0
    /\ lastOp.res = "ReconfigureWhileArmed"
    /\ timer.active

\* C3: while the source is attached and the callback keeps returning true,
\* every expiration is eventually followed by a callback invocation.  The
\* loop thread only invokes the callback when the descriptor is readable,
\* so with the loop idle an expiration that no invocation has followed
\* must still be in the counter, or the timer must still be running
\* towards another expiration; otherwise nothing will ever announce it.
C3_NoLostExpiration ==
    (unserved /\ Live /\ hostPc = "alive" /\ source = "attached" /\ pc = "idle")
      => (kernel.ticks > 0 \/ ~KernelDisarmed(kernel))

\* C4: from a successful stop() until the next successful start() the
\* kernel timer is disarmed and its expiration counter stays zero: in every
\* state in which the Timer is idle, nothing is pending and nothing is
\* running, and a successful stop() leaves the Timer idle.
C4_StopCancels ==
    /\ (Live /\ ~timer.active) => (KernelDisarmed(kernel) /\ kernel.ticks = 0)
    /\ (lastOp.op = "stop" /\ lastOp.res = "ok") => ~timer.active

\* stop() has just cancelled a running periodic timer.
C4_Witness ==
    /\ lastOp.op = "stop"
    /\ lastOp.res = "ok"
    /\ lastOp.prev.it_value # ZeroTimespec
    /\ lastOp.prev.it_interval # ZeroTimespec
    /\ ~timer.active
    /\ kernel.ticks = 0

\* C5: in every dispatch cycle the callback is invoked before the drain
\* read, and no further cycle starts before the drain read of the current
\* one has completed: a cycle that is under way has done nothing yet or the
\* callback alone, and the loop is idle only with no cycle begun or with a
\* cycle that ran the callback and then the read.
C5_CallbackBeforeDrain ==
    /\ pc = "step1" => cycle = <<>>
    /\ pc = "step2" => cycle = <<"callback">>
    /\ pc = "idle" => cycle \in {<<>>, <<"callback", "read">>}
    /\ lastDrain.done => cycle = <<"callback", "read">>

\* A cycle has completed and the descriptor is readable again.
C5_Witness ==
    /\ pc = "idle"
    /\ cycle = <<"callback", "read">>
    /\ source = "attached"
    /\ kernel.ticks > 0

\* C6: a drain read is accepted only when it returned exactly 8 bytes or
\* failed with "would block"; every other outcome (another error, a byte
\* count other than 8) ends the dispatch with a protocol violation.
C6_OnlyWouldBlockAccepted ==
    lastDrain.done =>
      /\ lastDrain.accepted <=>
           (lastDrain.n = 8 \/ (lastDrain.n = -1 /\ lastDrain.cause = "EAGAIN"))
      /\ ~lastDrain.accepted => pc = "crashed"

\* C7: a dispatch that completes reports "keep" exactly when the callback
\* returned true, whether the read drained 8 bytes or would have blocked,
\* and the reactor removes the source otherwise; once a callback invocation
\* has returned false the loop never again stands before an invocation.
C7_KeepIffTrue ==
    /\ (lastDrain.done /\ lastDrain.accepted) =>
         /\ lastDrain.keep = lastDrain.cont
         /\ ~lastDrain.cont => source = "destroyed"
         /\ (lastDrain.cont /\ hostPc = "alive") => source = "attached"
    /\ returnedFalse => pc # "step1"

\* The callback returned false, the source is gone, and the timer it left
\* running has expired again without a dispatch.
C7_Witness ==
    /\ returnedFalse
    /\ pc = "idle"
    /\ hostPc = "alive"
    /\ source = "destroyed"
    /\ kernel.ticks > 0

\* C8: the reactor-side source is destroyed and released before the owning
\* allocation is freed and the descriptor closed, and no dispatch step runs
\* or is under way on freed state or a closed descriptor.
C8_TeardownSafe ==
    /\ (inner = "freed" \/ fd \in {"closed", "reused"})
         => (source = "destroyed" /\ ~ownerRef)
    /\ pc \in {"step1", "step2"} => Live

\* C9: a created descriptor is closed exactly once: never twice, never
\* while its owner is alive, and it is closed once the owner has been
\* dropped; a failed creation leaves nothing to close.
C9_ClosedExactlyOnce ==
    /\ closes <= 1
    /\ closes = 1 => (hostPc = "dropped" /\ inner = "freed")
    /\ hostPc \in {"alive", "drop1", "drop2"} => (fd = "open" /\ closes = 0)
    /\ hostPc = "dropped" => (closes = 1 /\ fd # "open")
    /\ hostPc = "failed" => (fd = "none" /\ closes = 0)

\* The owner was dropped while its timer was armed and a dispatch crashed.
C9_Witness ==
    /\ hostPc = "dropped"
    /\ closes = 1
    /\ timer.active
    /\ pc = "crashed"

Le(a, b) == cmp(a, b) \in {"Less", "Equal"}

\* What a successful stop() of an armed Timer does, apart from the size of
\* the remaining time.
StopEffect ==
    /\ lastOp.res = "ok"
    /\ ~timer.active
    /\ KernelDisarmed(kernel)
    /\ kernel.it_interval = ZeroTimespec
    /\ timer.current = lastOp.prev

\* C10 (as stated): stop() in Armed succeeds, installs the disarmed spec,
\* returns the Timer to Idle and sets `current` to the previous spec, whose
\* initial is at most the initial given to configure.
C10_RemainingAtMostInitial ==
    (lastOp.op = "stop" /\ lastOp.wasActive) =>
      /\ StopEffect
      /\ Le(timer.current.it_value, configured.it_value)

\* C10 (amended): as stated, except that the remaining time is at most the
\* larger of the initial and the interval given to configure: after the
\* first expiration of a periodic timer it counts down from the interval.
C10_RemainingAtMostInitialOrInterval ==
    (lastOp.op = "stop" /\ lastOp.wasActive) =>
      /\ StopEffect
      /\ \/ Le(timer.current.it_value, configured.it_value)
         \/ Le(timer.current.it_value, configured.it_interval)

\* A periodic timer whose interval exceeds its initial was stopped after
\* its first expiration.
C10_Witness ==
    /\ lastOp.op = "stop"
    /\ lastOp.res = "ok"
    /\ cmp(timer.current.it_value, configured.it_value) = "Greater"

\* C11: a configure (set_interval, set_oneshot) whose initial_ms is <= 0 is
\* always rejected and leaves `current` as it was before the call; so the
\* spec stored by a successful configure is never disarmed: its it_value is
\* not all-zero.
C11_NonPositiveInitialRejected ==
    /\ (IsConfigure(lastOp.op) /\ lastOp.arg <= 0) =>
          /\ lastOp.res = "InvalidArgument"
          /\ timer.current = lastOp.cur
    /\ (IsConfigure(lastOp.op) /\ lastOp.res = "ok") =>
          /\ lastOp.arg > 0
          /\ timer.current.it_value # ZeroTimespec
    /\ (configured # ZeroSpec => configured.it_value # ZeroTimespec)

\* A configure with a non-positive initial_ms was rejected on a Timer that
\* held a spec from an earlier configure, and that spec is still there.
C11_Witness ==
    /\ IsConfigure(lastOp.op)
    /\ lastOp.arg <= 0
    /\ lastOp.res # "ok"
    /\ lastOp.cur.it_value # ZeroTimespec
    /\ timer.current = lastOp.cur

C15_StoredNanosecondsValid ==
    /\ Live => /\ is_valid(timer.current.it_value)
               /\ is_valid(timer.current.it_interval)
    /\ (lastOp.op = "start" /\ ~lastOp.wasActive) =>
          /\ is_valid(lastOp.cur.it_value)
          /\ is_valid(lastOp.cur.it_interval)
    /\ (IsConfigure(lastOp.op) /\ ~is_valid(MsToTimespec(lastOp.arg2))) =>
          lastOp.res = "InvalidArgument"

\* What C16 says of the timespec ts stored for the millisecond argument ms:
\* seconds and nanoseconds are the quotient and the scaled remainder of the
\* division by 1000, and converting back gives ms exactly.
SplitsExactly(ts, ms) ==
    /\ ts.tv_sec = TruncDiv(ms, 1000)
    /\ ts.tv_nsec = Rem(ms, 1000) * NsPerMs
    /\ ms >= 0 => /\ ts.tv_sec = ms \div 1000
                  /\ ts.tv_nsec = (ms % 1000) * NsPerMs
    /\ ts.tv_sec * 1000 + TruncDiv(ts.tv_nsec, NsPerMs) = ms

\* C16: a successful configure stores, for each of its two millisecond
\* arguments, seconds = ms / 1000 and nanoseconds = (ms % 1000) * 1000000,
\* so that seconds * 1000 + nanoseconds / 1000000 = ms; and set_oneshot(t)
\* leaves the Timer as set_interval(t, 0) does, with an all-zero interval.
C16_MillisecondSplitExact ==
    /\ (IsConfigure(lastOp.op) /\ lastOp.res = "ok") =>
          /\ SplitsExactly(timer.current.it_value, lastOp.arg)
          /\ SplitsExactly(timer.current.it_interval, lastOp.arg2)
    /\ lastOp.op = "set_oneshot" =>
          LET before == [active |-> lastOp.wasActive, current |-> lastOp.cur]
              same == set_interval(before, lastOp.arg, 0)
          IN  /\ timer = same.timer
              /\ lastOp.res = same.res
              /\ lastOp.res = "ok" => timer.current.it_interval = ZeroTimespec

\* A configure of 1001 ms initial and 1001 ms interval succeeded: both
\* arguments have a seconds part and a sub-second part.
C16_Witness ==
    /\ lastOp.op = "set_interval"
    /\ lastOp.res = "ok"
    /\ lastOp.arg = 1001
    /\ lastOp.arg2 = 1001
    /\ timer.current.it_value = timespec(1, 1000000)

\* C18 (as stated): a successful start of an idle Timer installs in the
\* kernel timer the spec set by the most recent successful configure, leaves
\* `current` unchanged and sets `active`, also when a start/stop pair has
\* occurred since that configure.
C18_StartInstallsConfigured ==
    (lastOp.op = "start" /\ lastOp.res = "ok" /\ configured # ZeroSpec) =>
        /\ KernelSpec(kernel) = configured
        /\ timer.current = lastOp.cur
        /\ timer.active

\* C18 (amended): a successful start of an idle Timer installs `current`
\* in the kernel timer with the expiration counter reset, leaves `current`
\* unchanged and sets `active`; `current` is the spec of the most recent
\* successful configure as long as no stop has succeeded since.
C18_StartInstallsCurrent ==
    /\ (lastOp.op = "start" /\ lastOp.res = "ok") =>
          /\ ~lastOp.wasActive
          /\ timer.active
          /\ timer.current = lastOp.cur
          /\ kernel.it_value = lastOp.cur.it_value
          /\ (lastOp.cur.it_value # ZeroTimespec =>
                 kernel.it_interval = lastOp.cur.it_interval)
          /\ kernel.ticks = 0
          /\ (~captured => lastOp.cur = configured)
    /\ (Live /\ ~captured) => timer.current = configured

\* A start succeeded after a start/stop pair: the spec it installed is the
\* remaining time captured by stop, not the configured spec.
C18_Witness ==
    /\ lastOp.op = "start"
    /\ lastOp.res = "ok"
    /\ captured
    /\ lastOp.cur.it_value # ZeroTimespec
    /\ lastOp.cur # configured
    /\ KernelSpec(kernel) = lastOp.cur

\* C17: while the TimerGSource exists, every dispatch cycle of an attached
\* timer runs to its end whatever the callback did with the Timer (nothing,
\* a read of the descriptor, stop, or stop, set_interval and start): no
\* step of the cycle panics, the drain read returns 8 bytes or fails with
\* EAGAIN and is accepted, and no read keeps the loop thread waiting.
C17_DispatchCompletes ==
    /\ pc # "blocked"
    /\ hostPc = "alive" => pc # "crashed"
    /\ (lastDrain.done /\ hostPc = "alive") =>
          /\ lastDrain.n = 8 \/ (lastDrain.n = -1 /\ lastDrain.cause = "EAGAIN")
          /\ lastDrain.accepted
          /\ ~lastDrain.blocked
          /\ pc = "idle"

\* A cycle of a periodic timer ended with a drain read that found nothing
\* to read (the callback had taken the expiration) and was accepted.
C17_Witness ==
    /\ lastDrain.done
    /\ hostPc = "alive"
    /\ configured.it_interval # ZeroTimespec
    /\ lastDrain.n = -1
    /\ lastDrain.cause = "EAGAIN"
    /\ lastDrain.accepted
    /\ pc = "idle"

Orderings == {"Less", "Equal", "Greater"}

Reverse(o) == IF o = "Less" THEN "Greater" ELSE IF o = "Greater" THEN "Less" ELSE o

OutOfRange(ts) == ts.tv_nsec < 0 \/ ts.tv_nsec > NSEC_MAX

AllValid == \A i \in 1..3 : ~OutOfRange(operands[i])

HoldsOutOfRange(spec) == OutOfRange(spec.it_interval) \/ OutOfRange(spec.it_value)

\* C13: on timespecs a, b, c with tv_nsec within 0..NSEC_MAX the comparison
\* is a strict total order by seconds, then nanoseconds: exactly one of
\* a < b, a == b, a > b holds; cmp(a, b) is Equal exactly when a and b are
\* equal field by field; cmp(a, b) is the reverse of cmp(b, a); a < b and
\* b < c imply a < c; and partial_cmp gives the answer of cmp.
C13_StrictTotalOrder ==
    (answer.op = "compare" /\ AllValid) =>
        LET a == operands[1]
            b == operands[2]
        IN  /\ answer.ab \in Orderings
            /\ answer.partial_ab = answer.ab
            /\ (answer.ab = "Equal") <=> (answer.eq_ab = "true")
            /\ (answer.eq_ab = "true") <=>
                  (a.tv_sec = b.tv_sec /\ a.tv_nsec = b.tv_nsec)
            /\ answer.ab = Reverse(answer.ba)
            /\ (answer.ab = "Less" /\ answer.bc = "Less") => answer.ac = "Less"
            /\ a.tv_sec < b.tv_sec => answer.ab = "Less"
            /\ a.tv_sec > b.tv_sec => answer.ab = "Greater"
            /\ (a.tv_sec = b.tv_sec /\ a.tv_nsec < b.tv_nsec) => answer.ab = "Less"
            /\ (a.tv_sec = b.tv_sec /\ a.tv_nsec > b.tv_nsec) =>
                  answer.ab = "Greater"

\* Three valid values in strictly increasing order, the first two ordered by
\* their seconds against their nanoseconds, were compared.
C13_Witness ==
    /\ answer.op = "compare"
    /\ AllValid
    /\ operands[1].tv_sec < operands[2].tv_sec
    /\ operands[1].tv_nsec > operands[2].tv_nsec
    /\ answer.ab = "Less"
    /\ answer.bc = "Less"
    /\ answer.ac = "Less"

\* C14 (as stated): when a timespec with tv_nsec outside 0..NSEC_MAX is an
\* operand, every comparison, of order and of equality, fails with
\* InvalidTimeValue, and every arm of a spec that holds it fails with
\* InvalidTimeValue and installs nothing.
C14_InvalidValueFails ==
    /\ (answer.op = "compare"
          /\ (OutOfRange(operands[1]) \/ OutOfRange(operands[2]))) =>
          /\ answer.ab = "panic"
          /\ answer.partial_ab = "panic"
          /\ answer.eq_ab = "panic"
    /\ (answer.op = "arm" /\ HoldsOutOfRange(answer.spec)) =>
          /\ answer.res = "InvalidTimeValue"
          /\ KernelSpec(kernel) = answer.prev

\* C14 (amended): when a timespec with tv_nsec outside 0..NSEC_MAX is an
\* operand, every comparison of order (cmp, partial_cmp) panics in
\* check_valid (InvalidTimeValue) and gives no ordering, while == makes no
\* range check and answers field by field; every arm of a spec that holds
\* it is rejected by the kernel with EINVAL, which is the panic of
\* TimerFD::settime (ArmFailed), and the installed spec stays as it was.
C14_InvalidValueNeverOrderedNorInstalled ==
    /\ (answer.op = "compare"
          /\ (OutOfRange(operands[1]) \/ OutOfRange(operands[2]))) =>
          /\ answer.ab = "panic"
          /\ answer.ba = "panic"
          /\ answer.partial_ab = "panic"
          /\ answer.res = "InvalidTimeValue"
          /\ answer.eq_ab \in {"true", "false"}
          /\ (answer.eq_ab = "true") <=> (operands[1] = operands[2])
    /\ (answer.op = "arm" /\ HoldsOutOfRange(answer.spec)) =>
          /\ answer.res = "ArmFailed"
          /\ answer.errno = "EINVAL"
          /\ KernelSpec(kernel) = answer.prev
    /\ ~OutOfRange(kernel.it_value)
    /\ ~OutOfRange(kernel.it_interval)

\* A spec whose it_value has tv_nsec = NSEC_MAX + 1 was armed on a
\* descriptor that holds an earlier, valid setting: the arm failed and the
\* earlier setting is still installed.
C14_Witness ==
    /\ answer.op = "arm"
    /\ answer.spec.it_value.tv_nsec = NSEC_MAX + 1
    /\ answer.res = "ArmFailed"
    /\ ~KernelDisarmed(kernel)
    /\ KernelSpec(kernel) = answer.prev

Attached == {p \in Pointers : gsources[p].state = "attached"}

\* C19: whenever the reactor calls the dispatch function of a source, the
\* source it passes is the g_source recorded in the TimerGSourceInner that
\* user_data points to, which is a live allocation: the assert_eq! of
\* dispatch_timerfd_g_source holds, however many TimerGSources were created
\* and attached with the one dispatch table.
C19_WrapperAssertionHolds ==
    /\ asserted.src # NULL =>
          /\ asserted.live
          /\ asserted.g_source = asserted.src
    /\ \A p \in Attached :
          /\ gsources[p].user_data \in Addresses
          /\ boxes[gsources[p].user_data].live
          /\ boxes[gsources[p].user_data].g_source = p

\* Two sources are attached at once and the one just dispatched has its
\* context at an address whose number differs from the source's.
C19_Witness ==
    /\ asserted.src # NULL
    /\ asserted.src \in Attached
    /\ \E q \in Attached : q # asserted.src
    /\ asserted.user_data # asserted.src
    /\ asserted.g_source = asserted.src

====
